---------------------------- MODULE Spec2Model ----------------------------
(***************************************************************************)
(* Model of src/recorder/recorder.py: the MQTT-controlled recorder.        *)
(*                                                                         *)
(* The control thread (paho's loop_forever) runs _on_broker_message, which *)
(* calls RecorderClient.start_recording / stop_recording / publish_status. *)
(* Every VideoRecorder.record and AudioRecorder.record call runs on its    *)
(* own thread.  The control thread is cut into steps at each statement     *)
(* that reads or writes state shared with a capture thread, and so is each *)
(* capture thread; statements that touch only one thread's own state are   *)
(* taken together with the step before them.                               *)
(***************************************************************************)
EXTENDS Integers, Sequences, FiniteSets, TLC

\* Number of VideoRecorder.record threads started over a run.
MaxThreads == 2

Tids == 1..MaxThreads
\* VideoRecorder objects that can be referenced at once: the manager's one,
\* and one per thread that still runs on a replaced object.
Objs == 1..(MaxThreads + 1)

VPaths == {"a.avi", "b.avi"}
APaths == {"a.wav"}

VARIABLES
    pc,          \* where the control thread is
    msg,         \* the payload _on_broker_message is handling
    recording,   \* RecorderClient.recording
    vrec,        \* RecorderClient.v_recorder: 0 is None, else an object
    objs,        \* the VideoRecorder objects: vfeed.isOpened(), recording, th,
                 \* output_video, and the threads that wrote to output_video
    thr,         \* the VideoRecorder.record threads
    nthr,        \* how many of them were started
    vsink,       \* the cv2.VideoWriter each thread created: none / open / released
    apc,         \* where the AudioRecorder.record thread is
    arec,        \* AudioRecorder.recording
    abuf,        \* whether record's local `buffer` is bound
    asink,       \* AudioRecorder.wavefile: none / open / closed
    aOverlap,    \* an audio thread was started while another was alive
    mapsOk,      \* the two map files can be opened (else DFE_Converter raises IOError)
    pubs,        \* status payloads published during the current handler run
    calls,       \* calls made during the current handler run, in order
    entryRec,    \* RecorderClient.recording when the current handler run began
    \* Components examined on their own, each under a specification of its
    \* own; Spec leaves them as Init sets them.
    rate,        \* src/recorder.py: the rate-gated VideoRecorder.record loop
    conn,        \* RecorderClient._broker_connect and the rest of __init__
    cam,         \* one VideoRecorder and the resolution its camera reports
    maps,        \* DFE_Converter.__init__ on the two map files
    aud          \* one AudioRecorder: its stream, wave files and record thread

vars == <<pc, msg, recording, vrec, objs, thr, nthr, vsink, apc,
          arec, abuf, asink, aOverlap, mapsOk, pubs, calls, entryRec,
          rate, conn, cam, maps, aud>>

side == <<rate, conn, cam, maps, aud>>

video == <<vrec, objs, thr, nthr, vsink>>
audio == <<apc, arec, abuf, asink, aOverlap>>
ghost == <<pubs, calls, entryRec>>

-----------------------------------------------------------------------------
(* Inbound payloads *)

NoMsg == [kind |-> "none", action |-> "", target |-> "", hasV |-> FALSE,
          hasA |-> FALSE, v |-> "", a |-> ""]

\* kind: undecodable (bytes that are not UTF-8), garbage (text on which
\* json.loads raises), scalar (valid JSON, not an object), object.
\* action: "absent" when the object has no action key.
\* target: absent / scalar (a value without keys()) / object.
Msgs ==
    {[NoMsg EXCEPT !.kind = k] : k \in {"undecodable", "garbage", "scalar"}}
    \cup {[NoMsg EXCEPT !.kind = "object", !.action = x] :
            x \in {"absent", "stop_recording", "status", "reboot"}}
    \cup {[NoMsg EXCEPT !.kind = "object", !.action = "start_recording", !.target = g] :
            g \in {"absent", "scalar"}}
    \cup {[kind |-> "object", action |-> "start_recording", target |-> "object",
           hasV |-> hv, hasA |-> ha,
           v |-> IF hv THEN p ELSE "", a |-> IF ha THEN q ELSE ""] :
            hv \in BOOLEAN, ha \in BOOLEAN, p \in VPaths, q \in APaths}

Ev(op) == [op |-> op, v |-> "", a |-> ""]


-----------------------------------------------------------------------------
(* VideoRecorder objects and threads *)

\* A VideoRecorder as __init__ leaves it, its feed opened or not: recording
\* is False, th and output_video are not set yet (0).  wr is the set of
\* threads that wrote a frame to the VideoWriter output_video refers to.
Fresh(opened) ==
    [opened |-> opened, recording |-> FALSE, th |-> 0, out |-> 0, wr |-> {}]

Blank == Fresh(FALSE)

NoThread == [pc |-> "none", obj |-> 0]
DoneThread == [pc |-> "done", obj |-> 0]

Alive(t) == thr[t].pc \notin {"none", "done"}

AliveOn(o) == {t \in Tids : Alive(t) /\ thr[t].obj = o}

\* The handler's last statement and its return to loop_forever (or the
\* exception's way out of it) are one step of the control thread; the state
\* between the two is kept only to read off what the run did, and no thread
\* is scheduled in it.
Running == pc \notin {"ret", "raise"}

AliveVideo == {t \in Tids : Alive(t)}

AudioAlive == apc \notin {"none", "done"}

Min(S) == CHOOSE x \in S : \A y \in S : x <= y

\* The slot a newly constructed VideoRecorder takes: one no running thread
\* still refers to.
NewObj == Min({o \in Objs : AliveOn(o) = {}})

-----------------------------------------------------------------------------
(* RecorderClient._on_broker_message: parsing and dispatch *)

\* message.payload.decode("utf-8") succeeds (line 126, outside any try).
Decodes(m) == m.kind # "undecodable"

\* json.loads(msg) succeeds.
Parses(m) == m.kind # "garbage"

\* 'videofile' and 'audiofile' in content['target'].keys(): the left operand
\* is a non-empty string, so this is 'audiofile' in keys.
TargetTest(m) == TRUE /\ m.hasA

\* elif content['action'] == "status"
IsStatus(x) == x = "status"

\* What the handler does with a payload, before any call:
\* discard (return, nothing done), raise (an exception leaves the callback),
\* start, stop or status.
Dispatch(m) ==
    IF ~Decodes(m) THEN "raise"
    ELSE IF ~Parses(m) THEN "discard"
    ELSE IF m.kind # "object" THEN "raise"           \* content.keys()
    ELSE IF m.action = "absent" THEN "discard"
    ELSE IF m.action = "start_recording" THEN
        IF m.target = "absent" THEN "discard"
        ELSE IF m.target # "object" THEN "raise"     \* content['target'].keys()
        ELSE IF TargetTest(m) THEN
            IF m.hasV THEN "start" ELSE "raise"      \* content['target']['videofile']
        ELSE "discard"
    ELSE IF m.action = "stop_recording" THEN "stop"
    ELSE IF IsStatus(m.action) THEN "status"
    ELSE "discard"

PublishTwice(flag) == pubs \o <<flag, flag>>

PublishNothing(flag) == pubs

\* RecorderClient.publish_status: one message carrying the flag's value.
PublishStatus(flag) == Append(pubs, flag)

\* The transport delivers a payload to _on_broker_message, which parses it
\* and dispatches on it.
Receive(m) ==
    /\ pc = "idle"
    /\ Dispatch(m) = "start" => nthr < MaxThreads
    /\ msg' = m
    /\ entryRec' = recording
    /\ LET d == Dispatch(m) IN
        /\ pc' = CASE d = "discard" -> "ret"
                   [] d = "raise" -> "raise"
                   [] d = "status" -> "ret"
                   [] d = "start" -> "sr_entry"
                   [] d = "stop" -> "st_entry"
        /\ pubs' = IF d = "status" THEN PublishStatus(recording) ELSE pubs
        /\ calls' = CASE d = "start" -> <<[op |-> "start_recording", v |-> m.v, a |-> m.a]>>
                      [] d = "stop" -> <<Ev("stop_recording")>>
                      [] OTHER -> <<>>
    /\ UNCHANGED <<recording, video, audio, mapsOk, side>>

\* _on_broker_message returns to loop_forever.
Return ==
    /\ pc = "ret"
    /\ pc' = "idle"
    /\ msg' = NoMsg
    /\ pubs' = <<>>
    /\ calls' = <<>>
    /\ entryRec' = FALSE
    /\ UNCHANGED <<recording, video, audio, mapsOk, side>>

\* An exception left the callback: loop_forever raises it, run()'s finally
\* clause clears the flag and the control thread ends.  The capture threads
\* are not daemon threads and keep running.
Crash ==
    /\ pc = "raise"
    /\ pc' = "off"
    /\ recording' = FALSE
    /\ msg' = NoMsg
    /\ pubs' = <<>>
    /\ calls' = <<>>
    /\ entryRec' = FALSE
    /\ UNCHANGED <<video, audio, mapsOk, side>>

-----------------------------------------------------------------------------
(* RecorderClient.stop_recording *)

AfterStopReturn == IF msg.action = "start_recording" THEN "sr_set" ELSE "ret"

\* Where stop_recording returns to: line 77 of start_recording, or line 148
\* of the handler.
AfterStop == IF msg.action = "start_recording" THEN "sr_set" ELSE "h_pub"

StopAlways(flag) == TRUE

\* if self.recording: (line 92)
StopGuard(flag) == flag

\* Lines 92-93: nothing to do on an idle manager; else the video recorder is
\* stopped first, if there is one.
StopEntry ==
    /\ pc = "st_entry"
    /\ IF ~StopGuard(recording) THEN
            /\ pc' = AfterStop
            /\ calls' = calls
       ELSE IF vrec # 0 THEN
            /\ pc' = "vs_check"
            /\ calls' = Append(calls, Ev("v.stop_recording"))
       ELSE
            /\ pc' = "as_clear"
            /\ calls' = calls
    /\ UNCHANGED <<msg, recording, video, audio, mapsOk, side, pubs, entryRec>>

\* VideoRecorder.stop_recording, line 249: if self.recording
VStopCheck ==
    /\ pc = "vs_check"
    /\ pc' = IF objs[vrec].recording THEN "vs_clear" ELSE "as_clear"
    /\ UNCHANGED <<msg, recording, video, audio, mapsOk, side, ghost>>

\* line 250: self.recording = False
VStopClear ==
    /\ pc = "vs_clear"
    /\ objs' = [objs EXCEPT ![vrec].recording = FALSE]
    /\ pc' = "vs_join"
    /\ UNCHANGED <<msg, recording, vrec, thr, nthr, vsink, audio,
                   mapsOk, side, ghost>>

\* line 251: self.th.join() blocks until the thread has ended; with th None
\* (or never set) it raises AttributeError.
VStopJoin ==
    /\ pc = "vs_join"
    /\ \/ /\ objs[vrec].th = 0
          /\ pc' = "raise"
       \/ /\ objs[vrec].th # 0
          /\ ~Alive(objs[vrec].th)
          /\ pc' = "as_clear"
    /\ UNCHANGED <<msg, recording, video, audio, mapsOk, side, ghost>>

\* AudioRecorder.stop_recording, line 192: self.recording = False
AStopClear ==
    /\ pc = "as_clear"
    /\ arec' = FALSE
    /\ calls' = Append(calls, Ev("a.stop_recording"))
    /\ pc' = "as_join"
    /\ UNCHANGED <<msg, recording, video, apc, abuf, asink, aOverlap, mapsOk, side,
                   pubs, entryRec>>

\* lines 193-195: join, then stop the stream and close the wave file.
AStopJoin ==
    /\ pc = "as_join"
    /\ ~AudioAlive
    /\ asink' = "closed"
    /\ pc' = "st_pub"
    /\ UNCHANGED <<msg, recording, video, apc, arec, abuf, aOverlap, mapsOk, side, ghost>>

\* RecorderClient.stop_recording, lines 96-97: publish_status(), and only
\* then self.recording = False.
StopPublish ==
    /\ pc = "st_pub"
    /\ pubs' = PublishStatus(recording)
    /\ recording' = FALSE
    /\ pc' = AfterStop
    /\ UNCHANGED <<msg, video, audio, mapsOk, side, calls, entryRec>>

\* The handler's own publish_status() after stop_recording() (line 148).
HandlerPublish ==
    /\ pc = "h_pub"
    /\ pubs' = PublishStatus(recording)
    /\ pc' = "ret"
    /\ UNCHANGED <<msg, recording, video, audio, mapsOk, side, calls, entryRec>>

-----------------------------------------------------------------------------
(* RecorderClient.start_recording *)

\* Lines 75-76: a recording manager is stopped first.
StartEntry ==
    /\ pc = "sr_entry"
    /\ IF recording THEN
            /\ pc' = "st_entry"
            /\ calls' = Append(calls, Ev("stop_recording"))
       ELSE
            /\ pc' = "sr_set"
            /\ calls' = calls
    /\ UNCHANGED <<msg, recording, video, audio, mapsOk, side, pubs, entryRec>>

\* self.v_recorder is None or not self.v_recorder.is_ready() (line 78)
VideoUnavailable == vrec = 0 \/ ~objs[vrec].opened

\* Lines 77-78 and, in the else branch, the call at line 87.
StartSet ==
    /\ pc = "sr_set"
    /\ recording' = TRUE
    /\ IF VideoUnavailable THEN
            /\ pc' = "sr_acquire"
            /\ calls' = calls
       ELSE
            /\ pc' = "vst_release"
            /\ calls' = Append(calls, [op |-> "v.start_recording", v |-> msg.v, a |-> ""])
    /\ UNCHANGED <<msg, video, audio, mapsOk, side, pubs, entryRec>>

AcquireAbort == "ret"

\* Where start_recording goes on after lines 79-85: the audio start, line 88.
AcquireNext == "sr_astart"

\* Lines 79-85: VideoRecorder(0) raises IOError when DFE_Converter cannot
\* open the map files, and v_recorder becomes None; otherwise the else
\* clause constructs a second VideoRecorder(0) and keeps that one.  The
\* constructor opens the camera, which succeeds or not; it starts no thread,
\* and this branch never calls v_recorder.start_recording.
AcquireVideo ==
    /\ pc = "sr_acquire"
    /\ \/ /\ ~mapsOk
          /\ vrec' = 0
          /\ objs' = [o \in Objs |->
                        IF o = vrec /\ AliveOn(o) = {} THEN Blank ELSE objs[o]]
          /\ calls' = Append(calls, Ev("VideoRecorder"))
       \/ /\ mapsOk
          /\ \E opened \in BOOLEAN :
                /\ vrec' = NewObj
                /\ objs' = [o \in Objs |->
                              IF o = NewObj THEN Fresh(opened)
                              ELSE IF o = vrec /\ AliveOn(o) = {} THEN Blank
                              ELSE objs[o]]
          /\ calls' = calls \o <<Ev("VideoRecorder"), Ev("VideoRecorder")>>
    /\ pc' = AcquireNext
    /\ UNCHANGED <<msg, recording, thr, nthr, vsink, audio, mapsOk, side,
                   pubs, entryRec>>

\* VideoRecorder.start_recording, lines 220-221: release an opened feed.
VStartRelease ==
    /\ pc = "vst_release"
    /\ objs' = [objs EXCEPT ![vrec].opened = FALSE]
    /\ pc' = "vst_init"
    /\ UNCHANGED <<msg, recording, vrec, thr, nthr, vsink, audio,
                   mapsOk, side, ghost>>

\* Lines 222-229: init_vfeed reopens the camera; if that fails th becomes
\* None and no thread is started, else a record thread is created and started.
VStartInit ==
    /\ pc = "vst_init"
    /\ \/ /\ objs' = [objs EXCEPT ![vrec].opened = FALSE, ![vrec].th = 0]
          /\ UNCHANGED <<thr, nthr>>
       \/ /\ nthr < MaxThreads
          /\ objs' = [objs EXCEPT ![vrec].opened = TRUE, ![vrec].th = nthr + 1]
          /\ thr' = [thr EXCEPT ![nthr + 1] =
                        [pc |-> "v_create", obj |-> vrec]]
          /\ nthr' = nthr + 1
    /\ pc' = "sr_astart"
    /\ UNCHANGED <<msg, recording, vrec, vsink, audio, mapsOk, side, ghost>>

\* Lines 88-89: AudioRecorder.start_recording opens the wave file, sets its
\* flag and starts its thread; then publish_status(), and the handler
\* returns (line 141).
StartAudio ==
    /\ pc = "sr_astart"
    /\ asink' = "open"
    /\ arec' = TRUE
    /\ apc' = "a_loop"
    /\ abuf' = "unbound"
    /\ aOverlap' = (aOverlap \/ AudioAlive)
    /\ calls' = Append(calls, [op |-> "a.start_recording", v |-> "", a |-> msg.a])
    /\ pubs' = PublishStatus(recording)
    /\ pc' = "ret"
    /\ UNCHANGED <<msg, recording, video, mapsOk, side, entryRec>>

-----------------------------------------------------------------------------
(* VideoRecorder.record, one thread per call *)

\* line 235: self.output_video = cv2.VideoWriter(file_path, ...)
VCreate(t) ==
    /\ Running
    /\ thr[t].pc = "v_create"
    /\ vsink' = [vsink EXCEPT ![t] = "open"]
    /\ objs' = [objs EXCEPT ![thr[t].obj].out = t, ![thr[t].obj].wr = {}]
    /\ thr' = [thr EXCEPT ![t].pc = "v_setrec"]
    /\ UNCHANGED <<pc, msg, recording, vrec, nthr, audio, mapsOk, side, ghost>>

\* line 236: self.recording = True
VSetRec(t) ==
    /\ Running
    /\ thr[t].pc = "v_setrec"
    /\ objs' = [objs EXCEPT ![thr[t].obj].recording = TRUE]
    /\ thr' = [thr EXCEPT ![t].pc = "v_loop"]
    /\ UNCHANGED <<pc, msg, recording, vrec, nthr, vsink, audio,
                   mapsOk, side, ghost>>

\* line 237: while self.vfeed.isOpened() and self.recording.  The thread is
\* at "v_ended" instead of "v_loop" when its last poll gave no frame.
VLoop(t) ==
    /\ Running
    /\ thr[t].pc \in {"v_loop", "v_ended"}
    /\ thr' = [thr EXCEPT ![t].pc =
                 IF objs[thr[t].obj].opened /\ objs[thr[t].obj].recording
                 THEN "v_body" ELSE "v_release"]
    /\ UNCHANGED <<pc, msg, recording, vrec, objs, nthr, vsink, audio,
                   mapsOk, side, ghost>>

\* lines 238-244, one pass of the loop body: ret, frame = self.vfeed.read();
\* a released feed yields no frame, an opened one yields a frame or not.  A
\* frame is converted and written to self.output_video, whichever
\* VideoWriter that attribute refers to now; no frame clears self.recording.
VBody(t) ==
    /\ Running
    /\ thr[t].pc = "v_body"
    /\ LET o == thr[t].obj IN
        \E ret \in BOOLEAN :
            /\ ret => objs[o].opened
            /\ IF ret
               THEN /\ objs' = [objs EXCEPT ![o].wr = @ \cup {t}]
                    /\ thr' = [thr EXCEPT ![t].pc = "v_loop"]
               ELSE /\ objs' = [objs EXCEPT ![o].recording = FALSE]
                    /\ thr' = [thr EXCEPT ![t].pc = "v_ended"]
    /\ UNCHANGED <<pc, msg, recording, vrec, nthr, vsink, audio, mapsOk, side, ghost>>

\* line 245: self.output_video.release(), and the thread ends.  A replaced
\* VideoRecorder whose last thread ends is garbage.
VRelease(t) ==
    /\ Running
    /\ thr[t].pc = "v_release"
    /\ LET o == thr[t].obj IN
        /\ vsink' = [vsink EXCEPT ![objs[o].out] = "released"]
        /\ objs' = IF o # vrec /\ AliveOn(o) = {t}
                   THEN [objs EXCEPT ![o] = Blank] ELSE objs
    /\ thr' = [thr EXCEPT ![t] = DoneThread]
    /\ UNCHANGED <<pc, msg, recording, vrec, nthr, audio, mapsOk, side, ghost>>

-----------------------------------------------------------------------------
(* AudioRecorder.record *)

\* line 183: while self.recording.  (The thread's first statement,
\* stream.start_stream() at line 181, is taken with its first test.)
ALoop ==
    /\ Running
    /\ apc = "a_loop"
    /\ apc' = IF arec THEN "a_body" ELSE "done"
    /\ UNCHANGED <<pc, msg, recording, video, arec, abuf, asink, aOverlap,
                   mapsOk, side, ghost>>

\* lines 184-189, one pass of the loop body: the read binds `buffer`, or
\* raises OSError, which is printed and leaves `buffer` as it was; then
\* self.wavefile.writeframes(buffer), where an unbound `buffer` raises
\* UnboundLocalError, which ends the thread.
ABody ==
    /\ Running
    /\ apc = "a_body"
    /\ \E ok \in BOOLEAN :
        /\ abuf' = IF ok THEN "bound" ELSE abuf
        /\ apc' = IF abuf' = "bound" THEN "a_loop" ELSE "done"
    /\ UNCHANGED <<pc, msg, recording, video, arec, asink, aOverlap, mapsOk, side, ghost>>

-----------------------------------------------------------------------------
(* Environment *)

\* Map files that were missing are put in place between two messages.
MapsChange ==
    /\ pc = "idle"
    /\ ~mapsOk
    /\ mapsOk' = TRUE
    /\ UNCHANGED <<pc, msg, recording, video, audio, ghost, side>>

-----------------------------------------------------------------------------

\* The components examined on their own, not in use.
SideOff ==
    /\ rate = [on |-> FALSE]
    /\ conn = [on |-> FALSE]
    /\ cam = [on |-> FALSE]
    /\ maps = [on |-> FALSE]
    /\ aud = [on |-> FALSE]

\* RecorderClient.__init__: VideoRecorder(DEFAULT_CAMERA_INDEX) or None on
\* IOError, the AudioRecorder, the broker connection, recording = False.
Init ==
    /\ pc = "idle"
    /\ msg = NoMsg
    /\ recording = FALSE
    /\ mapsOk \in BOOLEAN
    /\ vrec = IF mapsOk THEN 1 ELSE 0
    /\ \E opened \in BOOLEAN :
        objs = [o \in Objs |-> IF o = 1 /\ mapsOk THEN Fresh(opened) ELSE Blank]
    /\ thr = [t \in Tids |-> NoThread]
    /\ nthr = 0
    /\ vsink = [t \in Tids |-> "none"]
    /\ apc = "none"
    /\ arec = FALSE
    /\ abuf = "unbound"
    /\ asink = "none"
    /\ aOverlap = FALSE
    /\ pubs = <<>>
    /\ calls = <<>>
    /\ entryRec = FALSE
    /\ SideOff

Next ==
    \/ \E m \in Msgs : Receive(m)
    \/ Return
    \/ Crash
    \/ StopEntry
    \/ VStopCheck
    \/ VStopClear
    \/ VStopJoin
    \/ AStopClear
    \/ AStopJoin
    \/ StopPublish
    \/ HandlerPublish
    \/ StartEntry
    \/ StartSet
    \/ AcquireVideo
    \/ VStartRelease
    \/ VStartInit
    \/ StartAudio
    \/ \E t \in Tids : VCreate(t)
    \/ \E t \in Tids : VSetRec(t)
    \/ \E t \in Tids : VLoop(t)
    \/ \E t \in Tids : VBody(t)
    \/ \E t \in Tids : VRelease(t)
    \/ ALoop
    \/ ABody
    \/ MapsChange

Spec == Init /\ [][Next]_vars

-----------------------------------------------------------------------------
(* Properties *)

Last(q) == q[Len(q)]

Called(op) == \E i \in 1..Len(calls) : calls[i].op = op

\* The run being handled is a well-formed start_recording command.
StartRun == Dispatch(msg) = "start"

\* C1: each pipeline has at most one active session: never two
\* VideoRecorder.record threads alive together, never two
\* AudioRecorder.record threads alive together, and never two threads that
\* wrote to the same video sink.
C1_OneSessionPerPipeline ==
    /\ Cardinality(AliveVideo) <= 1
    /\ ~aOverlap
    /\ \A o \in Objs : Cardinality(objs[o].wr) <= 1

\* C2: when VideoRecorder.stop_recording() returns (the control thread is at
\* line 95) and the preceding start_recording started a thread, that thread
\* has ended and the VideoWriter it created has been released.
C2_StopJoinsVideoThread ==
    (pc = "as_clear" /\ vrec # 0 /\ objs[vrec].th # 0) =>
        /\ ~Alive(objs[vrec].th)
        /\ vsink[objs[vrec].th] = "released"

\* C3: when RecorderClient.stop_recording(), called on a Recording manager,
\* has returned to the handler, the manager is Idle and every status message
\* the call published carries recording = false.
C3_StopPublishesFalse ==
    (pc = "h_pub" /\ entryRec) =>
        /\ ~recording
        /\ pubs # <<>>
        /\ \A i \in 1..Len(pubs) : pubs[i] = FALSE

\* C4 as stated: in every manager state, a handled start_recording message
\* made exactly one call start_recording(v, a) and exactly one status
\* publish, of {"recording": true}.
C4_OneCallOnePublish ==
    (pc = "ret" /\ StartRun) =>
        /\ calls[1] = [op |-> "start_recording", v |-> msg.v, a |-> msg.a]
        /\ \A i \in 2..Len(calls) : calls[i].op # "start_recording"
        /\ pubs = <<TRUE>>

\* C4 as amended: a handled start_recording message made exactly one call
\* start_recording(v, a) and its last status publish is {"recording": true};
\* it is the only publish when the manager was Idle, and the second of two
\* when the manager was Recording (stop_recording publishes as well).
C4_StartHandlerPublishes ==
    (pc = "ret" /\ StartRun) =>
        /\ calls[1] = [op |-> "start_recording", v |-> msg.v, a |-> msg.a]
        /\ \A i \in 2..Len(calls) : calls[i].op # "start_recording"
        /\ pubs # <<>>
        /\ Last(pubs) = TRUE
        /\ Len(pubs) = IF entryRec THEN 2 ELSE 1

C4_Witness ==
    /\ pc = "ret"
    /\ StartRun
    /\ ~entryRec
    /\ pubs = <<TRUE>>
    /\ Called("v.start_recording")

\* C5: the manager is Idle until a first start_recording; a start_recording
\* that finds the video recorder missing or not ready (and so runs lines
\* 79-85) does not abort: it goes on to start the audio thread on the
\* requested file, the manager is Recording and the status published last
\* is {"recording": true}, whether or not a video recorder was obtained.
C5_AudioOnlyStart ==
    /\ (pc = "idle" /\ apc = "none") => ~recording
    /\ Called("VideoRecorder") => pc \in {"sr_astart", "ret"}
    /\ (pc = "ret" /\ Called("VideoRecorder")) =>
        /\ Last(calls) = [op |-> "a.start_recording", v |-> "", a |-> msg.a]
        /\ apc = "a_loop" /\ arec /\ asink = "open"
        /\ recording
        /\ pubs # <<>> /\ Last(pubs) = TRUE

C5_Witness ==
    /\ pc = "ret"
    /\ StartRun
    /\ ~entryRec
    /\ Called("VideoRecorder")
    /\ vrec = 0
    /\ nthr = 0
    /\ apc = "a_loop"
    /\ pubs = <<TRUE>>

\* C6: when start_recording found the video recorder missing or not ready
\* and the camera was opened during the call, then on return a video thread
\* for the requested path has been started.
C6_StartsAcquiredVideo ==
    (pc = "ret" /\ StartRun /\ Called("VideoRecorder")
        /\ vrec # 0 /\ objs[vrec].opened) =>
        /\ objs[vrec].th # 0
        /\ \E i \in 1..Len(calls) :
            calls[i] = [op |-> "v.start_recording", v |-> msg.v, a |-> ""]

\* A start_recording command whose target is not an object, or lacks the
\* videofile or the audiofile field.
BadTarget(m) ==
    /\ m.kind = "object"
    /\ m.action = "start_recording"
    /\ \/ m.target = "scalar"
       \/ m.target = "object" /\ (~m.hasV \/ ~m.hasA)

\* C7: a start_recording command with such a target is discarded: the
\* handler returns normally, having made no call and published nothing,
\* with the recording flag as it was.
C7_BadTargetDiscarded ==
    (BadTarget(msg) /\ pc # "idle") =>
        /\ pc = "ret"
        /\ calls = <<>>
        /\ pubs = <<>>
        /\ recording = entryRec

\* A payload that cannot be parsed as JSON (bytes that are not text, or text
\* that is not JSON), a start_recording command without target, or an
\* object whose action is none of the three known ones.
Ignored(m) ==
    \/ m.kind \in {"undecodable", "garbage"}
    \/ /\ m.kind = "object"
       /\ \/ m.action = "start_recording" /\ m.target = "absent"
          \/ m.action \in {"absent", "reboot"}

\* C8: handling such a payload makes no call, publishes nothing and leaves
\* the manager's flag and both pipelines as they were, from the delivery of
\* the payload to the end of the handler run.
C8_IgnoredFrame ==
    [][/\ (pc = "idle" /\ pc' # "idle" /\ Ignored(msg')) =>
            /\ calls' = <<>>
            /\ pubs' = <<>>
            /\ UNCHANGED <<recording, video, audio>>
       /\ (pc \in {"ret", "raise"} /\ Ignored(msg)) =>
            UNCHANGED <<recording, video, audio>>]_vars

IsStatusMsg(m) == m.kind = "object" /\ m.action = "status"

\* C9: handling {"action": "status"} publishes exactly one status message,
\* carrying the manager's recording flag, makes no call and changes neither
\* the flag nor either pipeline.
C9_StatusFrame ==
    [][/\ (pc = "idle" /\ pc' # "idle" /\ IsStatusMsg(msg')) =>
            /\ pc' = "ret"
            /\ pubs' = <<recording>>
            /\ calls' = <<>>
            /\ UNCHANGED <<recording, video, audio>>
       /\ (pc = "ret" /\ IsStatusMsg(msg)) =>
            /\ pc' = "idle"
            /\ UNCHANGED <<recording, video, audio>>]_vars

C9_Witness ==
    /\ pc = "ret"
    /\ IsStatusMsg(msg)
    /\ recording
    /\ pubs = <<TRUE>>

\* C10: RecorderClient.stop_recording() on an Idle manager returns at once:
\* it raises nothing, calls neither pipeline's stop_recording, publishes
\* nothing and leaves the flag false and everything else as it was.
C10_IdleStopNoop ==
    [][(pc = "st_entry" /\ ~recording /\ pc' # pc) =>
            /\ pc' = AfterStop
            /\ ~recording'
            /\ UNCHANGED <<msg, video, audio, pubs, calls>>]_vars

C10_Witness ==
    /\ pc = "h_pub"
    /\ ~entryRec
    /\ ~recording
    /\ calls = <<Ev("stop_recording")>>
    /\ pubs = <<>>
    /\ asink = "closed"


\* C18: when a poll in VideoRecorder.record reports no frame, the video
\* session ends itself: the poll clears VideoRecorder.recording and leaves
\* the manager's flag and the audio pipeline unchanged, the thread's next
\* step leaves the loop instead of polling again, and when the thread
\* terminates the video sink it created has been released.
C18_NoFrameEndsSession ==
    [][\A t \in Tids :
        /\ (thr[t].pc = "v_body" /\ thr'[t].pc = "v_ended") =>
                /\ ~objs'[thr[t].obj].recording
                /\ UNCHANGED <<recording, audio>>
        /\ (thr[t].pc = "v_ended" /\ thr'[t].pc # "v_ended") =>
                thr'[t].pc = "v_release"
        /\ (thr[t].pc = "v_release" /\ thr'[t].pc = "done") =>
                vsink'[t] = "released"]_vars

\* C19: VideoRecorder.stop_recording never joins a missing thread: whenever
\* it reaches the join, self.th is a thread, so RecorderClient.stop_recording
\* raises nothing and never ends before the audio pipeline's stop.
C19_StopNeverJoinsNone ==
    /\ pc = "vs_join" => objs[vrec].th # 0
    /\ pc = "raise" => ~Called("v.stop_recording")

\* The run being handled is a well-formed start, stop or status command.
CommandRun == Dispatch(msg) \in {"start", "stop", "status"}

\* C20: at each return of _on_broker_message from a well-formed start, stop
\* or status command, the status published last carries the manager's
\* current recording flag, which is true after a start and false after a
\* stop; publishes before the last one may carry another value.
C20_LastStatusIsFlag ==
    (pc = "ret" /\ CommandRun) =>
        /\ pubs # <<>>
        /\ Last(pubs) = recording
        /\ Dispatch(msg) = "start" => recording
        /\ Dispatch(msg) = "stop" => ~recording

C20_Witness ==
    /\ pc = "ret"
    /\ Dispatch(msg) = "stop"
    /\ entryRec
    /\ pubs = <<TRUE, FALSE>>
    /\ ~recording


-----------------------------------------------------------------------------
(* Components examined on their own *)

manager == <<pc, msg, recording, video, audio, mapsOk, ghost>>

\* No RecorderClient: the process of Spec is not running.
ManagerOff ==
    /\ pc = "off"
    /\ msg = NoMsg
    /\ recording = FALSE
    /\ mapsOk = FALSE
    /\ vrec = 0
    /\ objs = [o \in Objs |-> Blank]
    /\ thr = [t \in Tids |-> NoThread]
    /\ nthr = 0
    /\ vsink = [t \in Tids |-> "none"]
    /\ apc = "none"
    /\ arec = FALSE
    /\ abuf = "unbound"
    /\ asink = "none"
    /\ aOverlap = FALSE
    /\ pubs = <<>>
    /\ calls = <<>>
    /\ entryRec = FALSE

-----------------------------------------------------------------------------
(* src/recorder.py: VideoRecorder with a target frame rate *)

\* Largest frame rate, target or native, in frames per second.
MaxRate == 6

\* Longest recording, in seconds.
MaxSeconds == 2

Rates == 1..MaxRate

\* Time is counted in ticks of 1/(fps * frame_rate) second, so that the
\* camera's frame period 1/fps is frame_rate ticks, 1.0/frame_rate is fps
\* ticks, and every instant the loop reads the clock at is a whole number.

\* line 121: self.capture_delay = 1.0/frame_rate if frame_rate < self.fps else 0
CaptureDelay(frame_rate, fps) == IF frame_rate < fps THEN fps ELSE 0

\* line 140: (time.time() - start_t) >= self.capture_delay
\*           or self.capture_delay == 0
Emits(now, start_t, capture_delay) ==
    (now - start_t) >= capture_delay \/ capture_delay = 0

\* The last n elements of q (all of q when it has no more than n).
LastN(q, n) ==
    IF Len(q) <= n THEN q ELSE SubSeq(q, Len(q) - n + 1, Len(q))

\* VideoRecorder(camera_index, frame_rate) on a camera of native rate fps
\* (lines 116-121: frame_rate > 0), and record() up to the loop: start_t is
\* read at line 136, and the first read() returns when the camera's next
\* frame is due, at most one frame period later.
InitRate ==
    /\ ManagerOff
    /\ conn = [on |-> FALSE]
    /\ cam = [on |-> FALSE]
    /\ maps = [on |-> FALSE]
    /\ aud = [on |-> FALSE]
    /\ \E frame_rate \in Rates, fps \in Rates :
        \E first \in 1..frame_rate :
            rate = [on |-> TRUE,
                    frame_rate |-> frame_rate,
                    fps |-> fps,
                    capture_delay |-> CaptureDelay(frame_rate, fps),
                    start_t |-> 0,
                    next |-> first,
                    polls |-> 0,
                    emitted |-> <<>>]

\* lines 138-143, one pass of the loop: read() returns a frame at time
\* rate.next, one frame period after the previous one; the frame is
\* converted and written when the gate of line 140 is open, and start_t is
\* then set to the time of the poll.  rate.emitted tells, for each poll of
\* the last second, whether its frame was written.
RatePoll ==
    /\ rate.on
    /\ rate.polls < rate.fps * MaxSeconds
    /\ LET now == rate.next
           emit == Emits(now, rate.start_t, rate.capture_delay)
       IN rate' = [rate EXCEPT
                    !.start_t = IF emit THEN now ELSE @,
                    !.next = now + rate.frame_rate,
                    !.polls = @ + 1,
                    !.emitted = LastN(Append(@, emit), rate.fps)]
    /\ UNCHANGED <<manager, conn, cam, maps, aud>>

NextRate == RatePoll

SpecRate == InitRate /\ [][NextRate]_vars

\* The number of frames written during the last second of polls.
EmittedLastSecond == Cardinality({i \in 1..Len(rate.emitted) : rate.emitted[i]})

\* C11: for a target rate R below the camera's native rate F, with one frame
\* polled every 1/F second, the number of frames emitted in any one-second
\* window differs from R by at most one.
C11_RateWithinOne ==
    (rate.frame_rate < rate.fps /\ Len(rate.emitted) = rate.fps) =>
        /\ EmittedLastSecond >= rate.frame_rate - 1
        /\ EmittedLastSecond <= rate.frame_rate + 1

-----------------------------------------------------------------------------
(* RecorderClient._broker_connect and the construction around it *)

\* Most attempts that fail in a row.
MaxAttempts == 8

\* tenacity.wait_random(min=1, max=10), in whole seconds (line 99)
WaitMin == 1

WaitMax == 10

StopAfterThree(attempt) == attempt >= 3

\* The decorator (lines 99-101) passes no stop= argument, and tenacity then
\* uses stop_never: no number of attempts ends the retrying.
Stop(attempt) == FALSE

\* retry=tenacity.retry_if_result(lambda s: s is None) (line 100); a broker
\* handle is a positive number, None is 0.
RetryIfResult(result) == result = 0

\* RecorderClient.__init__ has reached self._broker_connect() (line 58).
InitConn ==
    /\ ManagerOff
    /\ rate = [on |-> FALSE]
    /\ cam = [on |-> FALSE]
    /\ maps = [on |-> FALSE]
    /\ aud = [on |-> FALSE]
    /\ conn = [on |-> TRUE, pc |-> "call", attempt |-> 0, result |-> 0,
               wait |-> 0, mqttClient |-> 0]

\* lines 103-113, one run of the function body: mqtt.Client() and
\* broker.connect() succeed and the new client is returned, or anything
\* raised is caught by the bare except and None is returned.  The handle of
\* the client made by the n-th attempt is n.
ConnAttempt ==
    /\ conn.on
    /\ conn.pc = "call"
    /\ \E ok \in BOOLEAN :
        /\ ~ok => conn.attempt + 1 < MaxAttempts
        /\ conn' = [conn EXCEPT !.attempt = @ + 1,
                                !.result = IF ok THEN conn.attempt + 1 ELSE 0,
                                !.pc = "check"]
    /\ UNCHANGED <<manager, rate, cam, maps, aud>>

\* tenacity after an attempt: a result that needs no retry is returned;
\* otherwise, when the stop condition holds, retry_error_callback returns
\* the last result (line 101), and when it does not, a wait is drawn and
\* slept.
ConnRetry ==
    /\ conn.on
    /\ conn.pc = "check"
    /\ IF ~RetryIfResult(conn.result) \/ Stop(conn.attempt)
       THEN conn' = [conn EXCEPT !.pc = "return"]
       ELSE \E w \in WaitMin..WaitMax :
                conn' = [conn EXCEPT !.pc = "sleep", !.wait = w]
    /\ UNCHANGED <<manager, rate, cam, maps, aud>>

\* The sleep ends and the function body is called again.
ConnWait ==
    /\ conn.on
    /\ conn.pc = "sleep"
    /\ conn' = [conn EXCEPT !.pc = "call", !.wait = 0]
    /\ UNCHANGED <<manager, rate, cam, maps, aud>>

\* lines 58-63: self.mqttClient = the value returned; None prints "Could not
\* connect to broker." and exits, otherwise construction completes.
ConnAssign ==
    /\ conn.on
    /\ conn.pc = "return"
    /\ conn' = [conn EXCEPT !.mqttClient = conn.result,
                            !.pc = IF conn.result = 0 THEN "exit"
                                   ELSE "constructed"]
    /\ UNCHANGED <<manager, rate, cam, maps, aud>>

\* RecorderClient.run, line 67: self.mqttClient.loop_forever()
ConnRun ==
    /\ conn.on
    /\ conn.pc = "constructed"
    /\ conn' = [conn EXCEPT !.pc = "loop"]
    /\ UNCHANGED <<manager, rate, cam, maps, aud>>

NextConn ==
    \/ ConnAttempt
    \/ ConnRetry
    \/ ConnWait
    \/ ConnAssign
    \/ ConnRun

\* The main thread is the only thread here and every step is the next
\* statement of its sequential code (a sleep of at most WaitMax seconds
\* included), hence weak fairness.
SpecConn == InitConn /\ [][NextConn]_vars /\ WF_vars(NextConn)

\* C12: _broker_connect retries as long as attempts fail and never gives
\* up: construction never ends in the "Could not connect to broker" exit,
\* the receive loop is never entered with an unconnected client, and once
\* an attempt has succeeded the client eventually is in the receive loop
\* with the handle that attempt returned.
C12_RetriesUntilConnected ==
    /\ [](conn.pc # "exit")
    /\ [](conn.pc \in {"constructed", "loop"} => conn.mqttClient # 0)
    /\ [](conn.pc = "sleep" => conn.result = 0 /\ conn.wait \in WaitMin..WaitMax)
    /\ \A h \in 1..MaxAttempts :
        (conn.result = h) ~> (conn.pc = "loop" /\ conn.mqttClient = h)

C12_Witness ==
    /\ conn.pc = "loop"
    /\ conn.attempt = 4
    /\ conn.mqttClient = 4

-----------------------------------------------------------------------------
(* One VideoRecorder and the resolution of its camera *)

\* Most frames counted in one session.
MaxFrames == 2

\* line 38
SUPPORTED_INPUT == <<1280, 720>>

\* The (width, height) pairs a camera may report.
InputSizes == {640, 1280} \X {480, 720}

\* VideoRecorder.__init__ (lines 199-202) has run: init_vfeed opened the
\* camera or not and read its frame size into self.input_size.
InitCam ==
    /\ ManagerOff
    /\ rate = [on |-> FALSE]
    /\ conn = [on |-> FALSE]
    /\ maps = [on |-> FALSE]
    /\ aud = [on |-> FALSE]
    /\ \E size \in InputSizes, opened \in BOOLEAN :
        cam = [on |-> TRUE, pc |-> "ready", input_size |-> size,
               opened |-> opened, recording |-> FALSE, th |-> "none",
               converted |-> 0]

\* VideoRecorder.start_recording, lines 217-229: the feed is released and
\* opened again by init_vfeed (lines 204-208), which stores the frame size
\* the camera reports now; a feed that is not opened gives th = None, an
\* opened one a started thread.  Nothing reads self.input_size.
CamStart ==
    /\ cam.on
    /\ cam.pc = "ready"
    /\ \E size \in InputSizes, opened \in BOOLEAN :
        cam' = [cam EXCEPT !.input_size = size,
                           !.opened = opened,
                           !.th = IF opened THEN "create" ELSE "none",
                           !.pc = "started"]
    /\ UNCHANGED <<manager, rate, conn, maps, aud>>

\* VideoRecorder.record, lines 235-236
CamRecordBegin ==
    /\ cam.on
    /\ cam.th = "create"
    /\ cam' = [cam EXCEPT !.recording = TRUE, !.th = "loop"]
    /\ UNCHANGED <<manager, rate, conn, maps, aud>>

\* lines 237-244, one pass: the loop test, then a poll that gives a frame,
\* which is converted and written, or none, which clears self.recording.
CamRecordPass ==
    /\ cam.on
    /\ cam.th = "loop"
    /\ IF cam.opened /\ cam.recording
       THEN \E ret \in BOOLEAN :
                /\ ret => cam.converted < MaxFrames
                /\ cam' = [cam EXCEPT
                            !.converted = IF ret THEN @ + 1 ELSE @,
                            !.recording = IF ret THEN @ ELSE FALSE]
       ELSE cam' = [cam EXCEPT !.th = "release"]
    /\ UNCHANGED <<manager, rate, conn, maps, aud>>

\* line 245
CamRecordEnd ==
    /\ cam.on
    /\ cam.th = "release"
    /\ cam' = [cam EXCEPT !.th = "done"]
    /\ UNCHANGED <<manager, rate, conn, maps, aud>>

\* VideoRecorder.stop_recording, lines 248-251, up to the join.
CamStop ==
    /\ cam.on
    /\ cam.pc = "started"
    /\ cam' = [cam EXCEPT !.recording = FALSE,
                          !.pc = IF cam.recording THEN "join" ELSE "stopped"]
    /\ UNCHANGED <<manager, rate, conn, maps, aud>>

\* line 251: self.th.join() returns once the thread has ended.
CamJoin ==
    /\ cam.on
    /\ cam.pc = "join"
    /\ cam.th = "done"
    /\ cam' = [cam EXCEPT !.pc = "stopped"]
    /\ UNCHANGED <<manager, rate, conn, maps, aud>>

NextCam ==
    \/ CamStart
    \/ CamRecordBegin
    \/ CamRecordPass
    \/ CamRecordEnd
    \/ CamStop
    \/ CamJoin

SpecCam == InitCam /\ [][NextCam]_vars

\* C13: no converting video session is started on a camera whose reported
\* input resolution differs from SUPPORTED_INPUT: start_recording then
\* starts no capture thread, and no frame is converted or written.
C13_OnlySupportedInput ==
    (cam.pc # "ready" /\ cam.input_size # SUPPORTED_INPUT) =>
        /\ cam.th = "none"
        /\ cam.converted = 0

-----------------------------------------------------------------------------
(* DFE_Converter.__init__ on the two map files *)

\* Largest width or height a map file declares.
MaxDim == 2

\* First lines of a map file, as readline() returns them.
FirstLines == {"P2\n", "P5\n", "P2\r\n"}

\* A map file: its first line and the two numbers of its size line.
MapFiles == [first : FirstLines, width : 1..MaxDim, height : 1..MaxDim]

\* lines 257 and 267: assert f.readline() == b'P2\n'
MagicOk(file) == file.first = "P2\n"

SameWidth(y_size, x_size, self_y_size, self_x_size) == x_size = self_x_size

\* line 270: assert (y_size, x_size) == (self.y_size, self.x_size)
SameShape(y_size, x_size, self_y_size, self_x_size) ==
    <<y_size, x_size>> = <<self_y_size, self_x_size>>

\* VideoRecorder.__init__ has reached DFE_Converter() (line 200) with the two
\* map files as they are on disk.
InitMaps ==
    /\ ManagerOff
    /\ rate = [on |-> FALSE]
    /\ conn = [on |-> FALSE]
    /\ cam = [on |-> FALSE]
    /\ aud = [on |-> FALSE]
    /\ \E xfile \in MapFiles, yfile \in MapFiles :
        maps = [on |-> TRUE, pc |-> "xmap", xfile |-> xfile, yfile |-> yfile,
                x_size |-> 0, y_size |-> 0, converter |-> FALSE,
                recorder |-> FALSE, converted |-> 0]

\* lines 255-263: the x map; its size line gives self.x_size, self.y_size.
LoadXmap ==
    /\ maps.on
    /\ maps.pc = "xmap"
    /\ IF MagicOk(maps.xfile)
       THEN maps' = [maps EXCEPT !.x_size = maps.xfile.width,
                                 !.y_size = maps.xfile.height,
                                 !.pc = "ymap"]
       ELSE maps' = [maps EXCEPT !.pc = "AssertionError"]
    /\ UNCHANGED <<manager, rate, conn, cam, aud>>

\* lines 265-274: the y map; when both asserts pass the converter exists.
LoadYmap ==
    /\ maps.on
    /\ maps.pc = "ymap"
    /\ IF /\ MagicOk(maps.yfile)
          /\ SameShape(maps.yfile.height, maps.yfile.width,
                       maps.y_size, maps.x_size)
       THEN maps' = [maps EXCEPT !.converter = TRUE, !.pc = "init_vfeed"]
       ELSE maps' = [maps EXCEPT !.pc = "AssertionError"]
    /\ UNCHANGED <<manager, rate, conn, cam, aud>>

\* VideoRecorder.__init__, lines 201-202: the constructor completes.
MapsRecorder ==
    /\ maps.on
    /\ maps.pc = "init_vfeed"
    /\ maps' = [maps EXCEPT !.recorder = TRUE, !.pc = "constructed"]
    /\ UNCHANGED <<manager, rate, conn, cam, aud>>

\* VideoRecorder.record, line 240: self.converter.convert(frame)
MapsConvert ==
    /\ maps.on
    /\ maps.pc = "constructed"
    /\ maps.converted < MaxFrames
    /\ maps' = [maps EXCEPT !.converted = @ + 1]
    /\ UNCHANGED <<manager, rate, conn, cam, aud>>

NextMaps ==
    \/ LoadXmap
    \/ LoadYmap
    \/ MapsRecorder
    \/ MapsConvert

SpecMaps == InitMaps /\ [][NextMaps]_vars

\* The first line of one of the files is not P2, or the two files declare
\* different (width, height).
BadMaps ==
    \/ maps.xfile.first \notin {"P2\n", "P2\r\n"}
    \/ maps.yfile.first \notin {"P2\n", "P2\r\n"}
    \/ <<maps.xfile.width, maps.xfile.height>>
            # <<maps.yfile.width, maps.yfile.height>>

\* C14: constructing DFE_Converter fails when the first line of either map
\* file is not P2 and when the two files declare different (width, height);
\* the check runs at construction, so with such files no converter and no
\* VideoRecorder ever exists and no frame is converted.
C14_BadMapsFailConstruction ==
    BadMaps =>
        /\ maps.pc \in {"xmap", "ymap", "AssertionError"}
        /\ ~maps.converter
        /\ ~maps.recorder
        /\ maps.converted = 0

C14_Witness ==
    /\ maps.pc = "AssertionError"
    /\ maps.xfile.first = "P2\n"
    /\ maps.yfile.first = "P2\n"
    /\ maps.xfile.width = maps.yfile.width
    /\ maps.xfile.height # maps.yfile.height

-----------------------------------------------------------------------------
(* One AudioRecorder: its wave file and its record thread *)

\* Most sessions of one AudioRecorder, and most chunks written in a session.
MaxSessions == 2

MaxChunks == 3

JoinNoWait(th) == TRUE

\* line 193: self.th.join() returns once the thread has ended, by leaving
\* the loop ("done") or by an uncaught exception ("dead").
JoinReturns(th) == th \in {"done", "dead"}

\* AudioRecorder.__init__ (lines 155-166) has run.  The chunks the stream
\* delivers in a session are numbered 1, 2, ...; `buffer` 0 is the unbound
\* local of a thread that has read nothing yet.
InitAud ==
    /\ ManagerOff
    /\ rate = [on |-> FALSE]
    /\ conn = [on |-> FALSE]
    /\ cam = [on |-> FALSE]
    /\ maps = [on |-> FALSE]
    /\ aud = [on |-> TRUE, pc |-> "idle", recording |-> FALSE, th |-> "none",
              buffer |-> 0, wavefile |-> "none", sessions |-> 0,
              reads |-> <<>>, written |-> <<>>, late |-> FALSE]

\* AudioRecorder.start_recording, lines 168-178: a new wave file is opened,
\* self.recording = True, a new thread is started.  RecorderClient calls it
\* only on a recorder it has stopped or never started.
AudStart ==
    /\ aud.on
    /\ aud.pc = "idle"
    /\ aud.sessions < MaxSessions
    /\ aud' = [aud EXCEPT !.pc = "started", !.recording = TRUE,
                          !.th = "start", !.buffer = 0,
                          !.wavefile = "open", !.sessions = @ + 1,
                          !.reads = <<>>, !.written = <<>>]
    /\ UNCHANGED <<manager, rate, conn, cam, maps>>

\* AudioRecorder.stop_recording, line 192
AudStopClear ==
    /\ aud.on
    /\ aud.pc = "started"
    /\ aud' = [aud EXCEPT !.recording = FALSE, !.pc = "join"]
    /\ UNCHANGED <<manager, rate, conn, cam, maps>>

\* line 193
AudStopJoin ==
    /\ aud.on
    /\ aud.pc = "join"
    /\ JoinReturns(aud.th)
    /\ aud' = [aud EXCEPT !.pc = "close"]
    /\ UNCHANGED <<manager, rate, conn, cam, maps>>

\* lines 194-196: stop_stream(), wavefile.close(), and the call returns.
AudStopClose ==
    /\ aud.on
    /\ aud.pc = "close"
    /\ aud' = [aud EXCEPT !.wavefile = "closed", !.pc = "idle"]
    /\ UNCHANGED <<manager, rate, conn, cam, maps>>

\* AudioRecorder.record, lines 181-182
AudRecordStart ==
    /\ aud.on
    /\ aud.th = "start"
    /\ aud' = [aud EXCEPT !.th = "test"]
    /\ UNCHANGED <<manager, rate, conn, cam, maps>>

\* line 183: while self.recording
AudRecordTest ==
    /\ aud.on
    /\ aud.th = "test"
    /\ aud' = [aud EXCEPT !.th = IF aud.recording THEN "read" ELSE "done"]
    /\ UNCHANGED <<manager, rate, conn, cam, maps>>

\* lines 184-187: stream.read binds `buffer` to the next chunk, or raises
\* OSError, which is printed and leaves `buffer` as it was.
AudRecordRead ==
    /\ aud.on
    /\ aud.th = "read"
    /\ Len(aud.written) < MaxChunks
    /\ \E ok \in BOOLEAN :
        aud' = [aud EXCEPT
                  !.buffer = IF ok THEN Len(aud.reads) + 1 ELSE @,
                  !.reads = IF ok THEN Append(@, Len(aud.reads) + 1) ELSE @,
                  !.th = "write"]
    /\ UNCHANGED <<manager, rate, conn, cam, maps>>

\* line 189: self.wavefile.writeframes(buffer), outside the try; an unbound
\* `buffer` raises UnboundLocalError, which nothing catches.
AudRecordWrite ==
    /\ aud.on
    /\ aud.th = "write"
    /\ IF aud.buffer = 0
       THEN aud' = [aud EXCEPT !.th = "dead"]
       ELSE aud' = [aud EXCEPT !.written = Append(@, aud.buffer),
                               !.late = @ \/ aud.wavefile # "open",
                               !.th = "test"]
    /\ UNCHANGED <<manager, rate, conn, cam, maps>>

NextAud ==
    \/ AudStart
    \/ AudStopClear
    \/ AudStopJoin
    \/ AudStopClose
    \/ AudRecordStart
    \/ AudRecordTest
    \/ AudRecordRead
    \/ AudRecordWrite

SpecAud == InitAud /\ [][NextAud]_vars

\* C15: a read error on any iteration of AudioRecorder.record, the first
\* included, does not end the session: the thread never dies of an
\* exception and ends only after stop_recording() cleared the flag.
C15_ReadErrorKeepsSession ==
    /\ aud.th # "dead"
    /\ aud.th = "done" => ~aud.recording

\* C16: over one audio session the chunks written are, in order and with
\* none repeated or dropped, the chunks successfully read: what is written
\* is what was read, but for a chunk just read and about to be written.
C16_WrittenIsRead ==
    /\ Len(aud.written) <= Len(aud.reads)
    /\ aud.written = SubSeq(aud.reads, 1, Len(aud.written))
    /\ Len(aud.reads) - Len(aud.written) <= 1
    /\ aud.th # "write" => aud.written = aud.reads

\* C17: when AudioRecorder.stop_recording() returns, the thread started by
\* the preceding start_recording has ended and the wave file is closed, and
\* in every interleaving no writeframes happens on a closed wave file.
C17_StopJoinsThenCloses ==
    /\ ~aud.late
    /\ aud.th \in {"read", "write"} => aud.wavefile = "open"
    /\ (aud.pc = "idle" /\ aud.sessions > 0) =>
        /\ aud.th \in {"done", "dead"}
        /\ aud.wavefile = "closed"

C17_Witness ==
    /\ aud.pc = "idle"
    /\ aud.sessions = 2
    /\ aud.th = "done"
    /\ Len(aud.written) = 2
    /\ aud.wavefile = "closed"
=============================================================================
